---- MODULE Spec2Model ----
(***************************************************************************)
(* A model of redi/upload.py: the transformation of one event element into *)
(* a REDCap import dictionary (create_import_data_json), the merge of form *)
(* data into REDCap records (create_redcap_records), the person / form /   *)
(* event traversal that sends the data (generate_output) and the parser of *)
(* REDCap's error responses (handle_errors_in_redcap_xml_response).        *)
(*                                                                         *)
(* XML text is modelled by TLA+ strings.  An element that is absent is     *)
(* Missing, an element that is present without text has text None (lxml's  *)
(* `.text` of an empty element).  Python dictionaries are functions.       *)
(* The error strings of the response parser are sequences of string        *)
(* pieces, concatenated with \o, so that "contains" can be stated.         *)
(***************************************************************************)
EXTENDS Integers, Sequences, FiniteSets, TLC

\* ------------------------------------------------------------------ bounds
MaxDocEvents == 3
MaxRuns == 2
MaxRecords == 2
MaxFields == 2
MaxFailures == 1

\* ------------------------------------------------------ values and helpers
None == "None"
Missing == "<missing>"
Unbound == "<unbound>"
NoExc == "<no exception>"
NoResponse == [kind |-> "none"]

\* redcap_client.project.def_field: the name of the subject-id key
def_field == "dm_subjid"

\* etree findtext(child, default): the default when the child is absent, ''
\* when the child has no text, its text otherwise
findtext(child, default) ==
    IF child = Missing THEN default ELSE IF child = None THEN "" ELSE child

\* Python truthiness of a text value (None and '' are false)
Truthy(text) == text # Missing /\ text # None /\ text # ""

\* d[key] = val on a dictionary
SetItem(d, key, val) ==
    [k \in DOMAIN d \cup {key} |-> IF k = key THEN val ELSE d[k]]

\* d.update(other)
Update(d, other) ==
    [k \in DOMAIN d \cup DOMAIN other |-> IF k \in DOMAIN other THEN other[k] ELSE d[k]]

EmptyDict == [k \in {} |-> ""]

\* ------------------------------------------------- create_import_data_json
\* all the events of a document, in document order (xpath '//event')
RECURSIVE FormEvents(_)
FormEvents(forms) ==
    IF forms = <<>> THEN <<>>
    ELSE Head(forms).events \o FormEvents(Tail(forms))

RECURSIVE AllEvents(_)
AllEvents(persons) ==
    IF persons = <<>> THEN <<>>
    ELSE FormEvents(Head(persons).forms) \o AllEvents(Tail(persons))

\* the texts of the elements selected by root.xpath('//event/field/name'):
\* a field without a name element contributes nothing
AllFieldNameTexts(persons) ==
    LET evs == AllEvents(persons)
        NamesOf(fields) == { fields[j].name : j \in DOMAIN fields } \ {Missing}
    IN UNION { NamesOf(evs[i].fields) : i \in DOMAIN evs }

\* a variant of FillFields: contains_data follows the last field alone
RECURSIVE FillFields_last_field(_, _)
FillFields_last_field(acc, fields) ==
    IF fields = <<>> THEN acc
    ELSE LET field == Head(fields)
             val == findtext(field.value, "")
         IN FillFields_last_field(
                [json_data |-> SetItem(acc.json_data, findtext(field.name, None), val),
                 contains_data |-> val # ""],
                Tail(fields))

\* the loop over root.xpath('field'), lines 56-61
RECURSIVE FillFields(_, _)
FillFields(acc, fields) ==
    IF fields = <<>> THEN acc
    ELSE LET field == Head(fields)
             val == findtext(field.value, "")
         IN FillFields([json_data |-> SetItem(acc.json_data,
                                              findtext(field.name, None), val),
                        contains_data |-> acc.contains_data \/ val # ""],
                       Tail(fields))

\* a variant of create_import_data_json: the field names are not checked
create_import_data_json_lenient(import_data_dict, persons, event) ==
    IF ~Truthy(event.name)
    THEN [exc |-> "Expected non-blank element event/name"]
    ELSE LET filled == FillFields(
                 [json_data |-> SetItem(import_data_dict,
                                        "redcap_event_name", event.name),
                  contains_data |-> FALSE],
                 event.fields)
         IN [exc |-> NoExc,
             json_data |-> filled.json_data,
             contains_data |-> filled.contains_data]

create_import_data_json(import_data_dict, persons, event) ==
    IF ~Truthy(event.name)
    THEN [exc |-> "Expected non-blank element event/name"]
    ELSE IF None \in AllFieldNameTexts(persons)
    THEN [exc |-> "Expected non-blank element event/field/name"]
    ELSE LET filled == FillFields(
                 [json_data |-> SetItem(import_data_dict,
                                        "redcap_event_name", event.name),
                  contains_data |-> FALSE],
                 event.fields)
         IN [exc |-> NoExc,
             json_data |-> filled.json_data,
             contains_data |-> filled.contains_data]

\* --------------------------------------------------- create_redcap_records
\* import_data is a sequence of 4-tuples (study_id_key, form_name, event_name,
\* json_data_dict).  The result is the dictionary records_by_subject_and_event
\* whose values are the records; itervalues() yields them in no stated order.
\* a variant of MergeRecords: the records are kept apart by form as well
RECURSIVE MergeRecords_by_form(_, _)
MergeRecords_by_form(acc, import_data) ==
    IF import_data = <<>> THEN acc
    ELSE LET t == Head(import_data)
             key == <<t[1], t[2], t[3]>>
             old == IF key \in DOMAIN acc THEN acc[key] ELSE EmptyDict
         IN MergeRecords_by_form(
                [k \in DOMAIN acc \cup {key} |->
                    IF k = key THEN Update(old, t[4]) ELSE acc[k]],
                Tail(import_data))

\* a variant of MergeRecords: the fields a record already holds are kept
RECURSIVE MergeRecords_first_wins(_, _)
MergeRecords_first_wins(acc, import_data) ==
    IF import_data = <<>> THEN acc
    ELSE LET t == Head(import_data)
             key == <<t[1], t[3]>>
             old == IF key \in DOMAIN acc THEN acc[key] ELSE EmptyDict
         IN MergeRecords_first_wins(
                [k \in DOMAIN acc \cup {key} |->
                    IF k = key THEN Update(t[4], old) ELSE acc[k]],
                Tail(import_data))

RECURSIVE MergeRecords(_, _)
MergeRecords(acc, import_data) ==
    IF import_data = <<>> THEN acc
    ELSE LET t == Head(import_data)
             key == <<t[1], t[3]>>
             old == IF key \in DOMAIN acc THEN acc[key] ELSE EmptyDict
         IN MergeRecords(
                [k \in DOMAIN acc \cup {key} |->
                    IF k = key THEN Update(old, t[4]) ELSE acc[k]],
                Tail(import_data))

create_redcap_records(import_data) ==
    MergeRecords([k \in {} |-> EmptyDict], import_data)

\* ------------------------------------- handle_errors_in_redcap_xml_response
\* A response is what ast.literal_eval(str(redcap_response)) makes of it:
\*   kind "unparseable": not a Python literal, literal_eval raises;
\*   kind "number": a literal that supports neither `in` nor indexing;
\*   kind "dict": a dictionary, with or without the keys 'error' and 'records';
\*   records is a sequence of dictionaries from key names to strings.
EntryKeys == {"record", "field_name", "value", "message"}

\* a variant of error_string: the offending value is left out
error_string_without_value(recordData) ==
    <<"Error writing to record ">> \o recordData["record"]
        \o <<" field ">> \o recordData["field_name"]
        \o <<".Error Message: ">> \o recordData["message"]

error_string(recordData) ==
    <<"Error writing to record ">> \o recordData["record"]
        \o <<" field ">> \o recordData["field_name"]
        \o <<" Value ">> \o recordData["value"]
        \o <<".Error Message: ">> \o recordData["message"]

\* a variant of AppendErrors: an entry that lacks a key is passed over and
\* the loop goes on
RECURSIVE AppendErrors_passing_over(_, _)
AppendErrors_passing_over(errors, records) ==
    IF records = <<>> THEN errors
    ELSE IF EntryKeys \subseteq DOMAIN Head(records)
    THEN AppendErrors_passing_over(Append(errors, error_string(Head(records))),
                                   Tail(records))
    ELSE AppendErrors_passing_over(errors, Tail(records))

\* the loop of lines 272-276; a KeyError ends it, keeping what was appended
RECURSIVE AppendErrors(_, _)
AppendErrors(errors, records) ==
    IF records = <<>> THEN errors
    ELSE IF EntryKeys \subseteq DOMAIN Head(records)
    THEN AppendErrors(Append(errors, error_string(Head(records))), Tail(records))
    ELSE errors

handle_errors_in_redcap_xml_response(redcap_response, errors) ==
    IF redcap_response.kind = "unparseable"
    THEN [exc |-> "ValueError", errors |-> errors]
    ELSE IF redcap_response.kind = "number"
    THEN [exc |-> "TypeError", errors |-> errors]
    ELSE IF ~redcap_response.has_error
    THEN [exc |-> NoExc, ret |-> TRUE, errors |-> errors]
    ELSE IF ~redcap_response.has_records
    THEN [exc |-> NoExc, ret |-> TRUE, errors |-> errors]
    ELSE [exc |-> NoExc, ret |-> TRUE,
          errors |-> AppendErrors(errors, redcap_response.records)]

\* ------------------------------------------------------------- the inputs
\* The person tree is keyed: its persons carry distinct study ids, the forms
\* of a person distinct names, the events of a form distinct names.  Every
\* person holds a copy of the form-event template: its forms are the first
\* forms of the template, in the template's order, each with its first
\* events; every person has a form and every form an event.
StudyId(i) == "S" \o ToString(i)
FormName(i) == "F" \o ToString(i)
EventName(k) == "E" \o ToString(k)

\* the fields of a form carry its name
FieldOf(form_name) == "f_" \o form_name

\* a blank field has an empty value element, a data field the text "v"
FieldValues == {None, "v"}

\* the sequences of n events of a form, named E<from>, E<from+1>, ...
RECURSIVE EventSeqs(_, _, _)
EventSeqs(form_name, from, n) ==
    IF n = 0 THEN {<<>>}
    ELSE { <<[name |-> EventName(from),
              fields |-> <<[name |-> FieldOf(form_name), value |-> v]>>]>> \o rest :
             v \in FieldValues, rest \in EventSeqs(form_name, from + 1, n - 1) }

\* the sequences of forms F<from>, F<from+1>, ... holding n events in all
RECURSIVE FormSeqs(_, _)
FormSeqs(from, n) ==
    IF n = 0 THEN {<<>>}
    ELSE UNION { { <<[name |-> FormName(from), events |-> es]>> \o rest :
                     es \in EventSeqs(FormName(from), 1, k),
                     rest \in FormSeqs(from + 1, n - k) } :
                  k \in 1..n }

\* the sequences of persons S<from>, S<from+1>, ... holding n events in all
RECURSIVE PersonSeqs(_, _)
PersonSeqs(from, n) ==
    IF n = 0 THEN {<<>>}
    ELSE UNION { { <<[study_id |-> StudyId(from), lab_id |-> None, forms |-> fs]>>
                      \o rest :
                     fs \in FormSeqs(1, k), rest \in PersonSeqs(from + 1, n - k) } :
                  k \in 1..n }

\* the documents of at most MaxDocEvents events
Docs == UNION { PersonSeqs(1, n) : n \in 0..MaxDocEvents }

\* the "sent" marks the DedupTracker may hold when the first run starts: none,
\* or one of these
MarkedBefore ==
    { <<StudyId(1), FormName(1), EventName(1)>>,
      <<StudyId(1), FormName(1), EventName(2)>>,
      <<StudyId(1), FormName(2), EventName(1)>> }
InitialSent == {{}} \cup { {m} : m \in MarkedBefore }

\* the message of a RedcapError, as handle_errors_in_redcap_xml_response
\* receives it
WellFormedResponse ==
    [kind |-> "dict", has_error |-> TRUE, has_records |-> TRUE,
     records |-> <<[k \in EntryKeys |-> <<"txt_" \o k>>]>>]
UnparseableResponse == [kind |-> "unparseable"]
SendResponses == {WellFormedResponse, UnparseableResponse}

\* what a call of redcap_client.send_data_to_redcap can do
Outcomes == {[ok |-> TRUE]} \cup {[ok |-> FALSE, message |-> m] : m \in SendResponses}

\* ------------------------------------------------------------------- state
VARIABLES
    person_tree,       \* the persons of the input document
    skip_blanks,       \* option
    bulk_send_blanks,  \* option
    sent_events,       \* the DedupTracker: the set of (subject, form, event) marked sent
    pc,                \* "persons", "forms", "events": the loop the run is in;
                       \* "returned", "raised": the run is over; "call": a pure function is to be applied
    person_idx,        \* number of person elements entered
    form_idx,          \* number of form elements of the person entered
    event_idx,         \* number of event elements of the form evaluated
    person_count,
    event_count,
    study_id_key,      \* the local of that name, Unbound before the first form
    subject_details,
    form_details,
    errors,            \* report_data['errors']
    blanks,            \* the deferred blank events
    exc,               \* the exception that ended the run, or NoExc
    run,               \* the number of the run
    reports,           \* the report_data returned by the runs so far
    calls,             \* history: the calls of upload_data
    handled,           \* history: the responses given to handle_errors_in_redcap_xml_response
    trace,             \* history: the events evaluated and what was decided for each
    sent_at_start,     \* history: the DedupTracker's marks when the run started
    redcap_response,   \* the argument of a direct call of the response parser
    ret                \* the result of a direct call of a pure function

vars == <<person_tree, skip_blanks, bulk_send_blanks, sent_events, pc, person_idx,
          form_idx, event_idx, person_count, event_count, study_id_key,
          subject_details, form_details, errors, blanks, exc, run, reports,
          calls, handled, trace, sent_at_start, redcap_response, ret>>

inputs == <<person_tree, skip_blanks, bulk_send_blanks>>
positions == <<person_idx, form_idx, event_idx>>
counters == <<subject_details, form_details>>
history == <<calls, handled, trace, sent_at_start>>
direct == <<redcap_response, ret>>

\* ------------------------------------------------------- the DedupTracker
\* a variant of was_sent: no mark is ever found
was_sent_never(sent, study_id, form_name, event_name) == FALSE

was_sent(sent, study_id, form_name, event_name) ==
    <<study_id, form_name, event_name>> \in sent

\* a variant of mark_sent: the mark covers every event of the form
mark_sent_whole_form(sent, study_id, form_name, event_name) ==
    sent \cup { <<study_id, form_name, EventName(k)>> : k \in 1..MaxDocEvents }

\* a variant of mark_sent: the mark is not kept
mark_sent_forgets(sent, study_id, form_name, event_name) == sent

mark_sent(sent, study_id, form_name, event_name) ==
    sent \cup {<<study_id, form_name, event_name>>}

\* --------------------------------------------------------- generate_output
CurPerson == person_tree[person_idx]
CurForm == CurPerson.forms[form_idx]

form_key_of(form_name) == "Total_" \o form_name \o "_Forms"

\* lines 153-162: the counters of a subject and of a form start at zero
InitSubjectDetails(sd, key, lab_id, form_key) ==
    LET withSubject == IF key \in DOMAIN sd THEN sd
                       ELSE SetItem(sd, key, [k \in {"lab_id"} |-> lab_id])
    IN IF form_key \in DOMAIN withSubject[key] THEN withSubject
       ELSE SetItem(withSubject, key, SetItem(withSubject[key], form_key, 0))

InitFormDetails(fd, form_key) ==
    IF form_key \in DOMAIN fd THEN fd ELSE SetItem(fd, form_key, 0)

\* a variant of CountSubject: the per-subject counter is left alone
CountSubject_never(sd, key, form_key, contains_data) == sd

\* a variant of CountSubject: a blank event is counted too
CountSubject_blank_too(sd, key, form_key, contains_data) ==
    SetItem(sd, key, SetItem(sd[key], form_key, sd[key][form_key] + 1))

\* lines 186-189 and 217-220: the event counters move only for an event
\* that contains data
CountSubject(sd, key, form_key, contains_data) ==
    IF contains_data
    THEN SetItem(sd, key, SetItem(sd[key], form_key, sd[key][form_key] + 1))
    ELSE sd

\* a variant of CountForm: a blank event is counted too
CountForm_blank_too(fd, form_key, contains_data) ==
    SetItem(fd, form_key, fd[form_key] + 1)

CountForm(fd, form_key, contains_data) ==
    IF contains_data THEN SetItem(fd, form_key, fd[form_key] + 1) ELSE fd

\* a variant of Decide: bulk_send_blanks is looked at before skip_blanks
Decide_bulk_first(already_sent, contains_data, skip, bulk) ==
    IF already_sent THEN "already_sent"
    ELSE IF ~contains_data /\ bulk THEN "deferred"
    ELSE IF ~contains_data /\ skip THEN "skipped"
    ELSE "send"

\* a variant of Decide: bulk_send_blanks is not looked at
Decide_without_bulk(already_sent, contains_data, skip, bulk) ==
    IF already_sent THEN "already_sent"
    ELSE IF ~contains_data /\ skip THEN "skipped"
    ELSE "send"

\* a variant of Decide: skip_blanks is not looked at
Decide_without_skip(already_sent, contains_data, skip, bulk) ==
    IF already_sent THEN "already_sent"
    ELSE IF ~contains_data /\ bulk THEN "deferred"
    ELSE "send"

\* lines 184-203: what is done with an event
Decide(already_sent, contains_data, skip, bulk) ==
    IF already_sent THEN "already_sent"
    ELSE IF ~contains_data /\ skip THEN "skipped"
    ELSE IF ~contains_data /\ bulk THEN "deferred"
    ELSE "send"


\* the sends that failed so far
Failures == Cardinality({ i \in DOMAIN calls : ~calls[i].ok })

\* the remote service fails at most MaxFailures sends
OutcomesNow == IF Failures < MaxFailures THEN Outcomes ELSE {[ok |-> TRUE]}

\* the values an event's evaluation may change, as they are before it
Unchanged ==
    [pc |-> pc, event_idx |-> event_idx, event_count |-> event_count,
     subject_details |-> subject_details, form_details |-> form_details,
     sent_events |-> sent_events, blanks |-> blanks, errors |-> errors,
     exc |-> exc, calls |-> calls, handled |-> handled, trace |-> trace]

\* lines 172-228: the body of the loop over the events of one form, when the
\* remote service answers a send with `outcome`
process_event(outcome) ==
    LET event == CurForm.events[event_idx + 1]
        event_name == findtext(event.name, "")
        form_name == CurForm.name
        form_key == form_key_of(form_name)
        import_dict == create_import_data_json(
                           [k \in {def_field} |-> CurPerson.study_id],
                           person_tree, event)
        json_data_dict == import_dict.json_data
        contains_data == import_dict.contains_data
        Note(what) == Append(trace,
                             [run |-> run,
                              at |-> <<person_idx, form_idx, event_idx + 1>>,
                              key |-> <<study_id_key, form_name, event_name>>,
                              contains_data |-> contains_data,
                              outcome |-> what])
        Call == [run |-> run, kind |-> "single", ok |-> outcome.ok,
                 at |-> <<person_idx, form_idx, event_idx + 1>>,
                 response |-> IF outcome.ok THEN NoResponse ELSE outcome.message,
                 records |-> [k \in {<<study_id_key, event_name>>} |-> json_data_dict],
                 keys |-> {<<study_id_key, form_name, event_name>>}]
        parsed == handle_errors_in_redcap_xml_response(outcome.message, errors)
        decision == Decide(was_sent(sent_events, study_id_key, form_name, event_name),
                           contains_data, skip_blanks, bulk_send_blanks)
    IN IF event_name = ""
       THEN Update(Unchanged, [pc |-> "raised", exc |-> "Missing name for form event"])
       ELSE IF import_dict.exc # NoExc
       THEN Update(Unchanged, [pc |-> "raised", exc |-> import_dict.exc])
       ELSE IF decision = "already_sent"
       THEN Update(Unchanged,
                [event_idx |-> event_idx + 1,
                 subject_details |-> CountSubject(subject_details, study_id_key,
                                                  form_key, contains_data),
                 form_details |-> CountForm(form_details, form_key, contains_data),
                 trace |-> Note("already_sent")])
       ELSE IF decision = "skipped"
       THEN Update(Unchanged, [pc |-> "forms", trace |-> Note("skipped")])
       ELSE IF decision = "deferred"
       THEN Update(Unchanged,
                [event_idx |-> event_idx + 1,
                 blanks |-> Append(blanks, <<study_id_key, form_name, event_name,
                                             json_data_dict>>),
                 trace |-> Note("deferred")])
       ELSE IF outcome.ok
       THEN Update(Unchanged,
                [event_idx |-> event_idx + 1,
                 event_count |-> event_count + 1,
                 sent_events |-> mark_sent(sent_events, study_id_key, form_name,
                                           event_name),
                 subject_details |-> CountSubject(subject_details, study_id_key,
                                                  form_key, contains_data),
                 form_details |-> CountForm(form_details, form_key, contains_data),
                 calls |-> Append(calls, Call),
                 trace |-> Note("sent")])
       ELSE Update(Unchanged,
                [event_idx |-> event_idx + 1,
                 event_count |-> event_count + 1,
                 calls |-> Append(calls, Call),
                 handled |-> Append(handled, outcome.message),
                 errors |-> parsed.errors,
                 trace |-> Note("failed"),
                 pc |-> IF parsed.exc = NoExc THEN pc ELSE "raised",
                 exc |-> parsed.exc])

Init ==
    /\ person_tree \in Docs
    /\ skip_blanks \in BOOLEAN
    /\ bulk_send_blanks \in BOOLEAN
    /\ sent_events \in InitialSent
    /\ sent_at_start = sent_events
    /\ pc = "persons"
    /\ person_idx = 0
    /\ form_idx = 0
    /\ event_idx = 0
    /\ person_count = 0
    /\ event_count = 0
    /\ study_id_key = Unbound
    /\ subject_details = EmptyDict
    /\ form_details = EmptyDict
    /\ errors = <<>>
    /\ blanks = <<>>
    /\ exc = NoExc
    /\ run = 1
    /\ reports = <<>>
    /\ calls = <<>>
    /\ handled = <<>>
    /\ trace = <<>>
    /\ redcap_response = NoResponse
    /\ ret = None

\* lines 133-145: the next person is entered
BeginPerson ==
    /\ pc = "persons"
    /\ person_idx < Len(person_tree)
    /\ person_idx' = person_idx + 1
    /\ person_count' = person_count + 1
    /\ IF person_tree[person_idx + 1].study_id = Missing
       THEN /\ pc' = "raised"
            /\ exc' = "Expected a valid value for study_id"
            /\ UNCHANGED <<event_count, form_idx>>
       ELSE /\ pc' = "forms"
            /\ event_count' = 0
            /\ form_idx' = 0
            /\ UNCHANGED exc
    /\ UNCHANGED <<inputs, sent_events, event_idx, study_id_key, counters, errors,
                   blanks, run, reports, history, direct>>

\* lines 148-168: the next form of the person is entered
BeginForm ==
    /\ pc = "forms"
    /\ form_idx < Len(CurPerson.forms)
    /\ LET form == CurPerson.forms[form_idx + 1]
           form_key == form_key_of(form.name)
           key == CurPerson.study_id
       IN /\ form_idx' = form_idx + 1
          /\ study_id_key' = key
          /\ subject_details' = InitSubjectDetails(subject_details, key,
                                                   CurPerson.lab_id, form_key)
          /\ form_details' = InitFormDetails(form_details, form_key)
          /\ event_idx' = 0
          /\ IF key = None
             THEN pc' = "raised" /\ exc' = "TypeError"
             ELSE pc' = "events" /\ UNCHANGED exc
    /\ UNCHANGED <<inputs, sent_events, person_idx, person_count, event_count,
                   errors, blanks, run, reports, history, direct>>

\* lines 171-228: the next event of the form is evaluated
EvalEvent ==
    /\ pc = "events"
    /\ event_idx < Len(CurForm.events)
    /\ \E outcome \in OutcomesNow :
          LET new == process_event(outcome)
          IN /\ pc' = new.pc
             /\ event_idx' = new.event_idx
             /\ event_count' = new.event_count
             /\ subject_details' = new.subject_details
             /\ form_details' = new.form_details
             /\ sent_events' = new.sent_events
             /\ blanks' = new.blanks
             /\ errors' = new.errors
             /\ exc' = new.exc
             /\ calls' = new.calls
             /\ handled' = new.handled
             /\ trace' = new.trace
    /\ UNCHANGED sent_at_start
    /\ UNCHANGED <<inputs, person_idx, form_idx, person_count, study_id_key, run,
                   reports, direct>>

\* line 171: the events of the form are exhausted
EndForm ==
    /\ pc = "events"
    /\ event_idx = Len(CurForm.events)
    /\ pc' = "forms"
    /\ UNCHANGED <<inputs, sent_events, positions, person_count, event_count,
                   study_id_key, counters, errors, blanks, exc, run, reports,
                   history, direct>>

\* lines 148 and 230-232: the forms of the person are exhausted; the log line
\* reads study_id_key, which no form has bound if none was entered yet
EndPerson ==
    /\ pc = "forms"
    /\ form_idx = Len(CurPerson.forms)
    /\ IF study_id_key = Unbound
       THEN pc' = "raised" /\ exc' = "NameError"
       ELSE pc' = "persons" /\ UNCHANGED exc
    /\ UNCHANGED <<inputs, sent_events, positions, person_count, event_count,
                   study_id_key, counters, errors, blanks, run, reports,
                   history, direct>>

\* the (subject, form, event) triples of the deferred events
BlankKeys(bs) == { <<bs[i][1], bs[i][2], bs[i][3]>> : i \in DOMAIN bs }

\* lines 240-241
RECURSIVE MarkAll(_, _)
MarkAll(sent, bs) ==
    IF bs = <<>> THEN sent
    ELSE MarkAll(mark_sent(sent, Head(bs)[1], Head(bs)[2], Head(bs)[3]), Tail(bs))

\* lines 247-255
Report ==
    [total_subjects |-> person_count, form_details |-> form_details,
     subject_details |-> subject_details, errors |-> errors]

\* lines 234-255: after the last person the deferred blanks are sent in one
\* call and the report is returned
FinishRun ==
    /\ pc = "persons"
    /\ person_idx = Len(person_tree)
    /\ IF blanks = <<>>
       THEN /\ pc' = "returned"
            /\ reports' = Append(reports, Report)
            /\ UNCHANGED <<sent_events, errors, exc, calls, handled>>
       ELSE \E outcome \in OutcomesNow :
              LET records == create_redcap_records(blanks)
                  Call == [run |-> run, kind |-> "bulk", ok |-> outcome.ok,
                           at |-> <<person_idx, 0, 0>>,
                           response |-> IF outcome.ok THEN NoResponse
                                        ELSE outcome.message,
                           records |-> records, keys |-> BlankKeys(blanks)]
              IN /\ calls' = Append(calls, Call)
                 /\ IF outcome.ok
                    THEN /\ sent_events' = MarkAll(sent_events, blanks)
                         /\ pc' = "returned"
                         /\ reports' = Append(reports, Report)
                         /\ UNCHANGED <<errors, exc, handled>>
                    ELSE LET parsed == handle_errors_in_redcap_xml_response(
                                           outcome.message, errors)
                         IN /\ handled' = Append(handled, outcome.message)
                            /\ errors' = parsed.errors
                            /\ exc' = parsed.exc
                            /\ UNCHANGED sent_events
                            /\ IF parsed.exc = NoExc
                               THEN /\ pc' = "returned"
                                    /\ reports' = Append(reports,
                                           [Report EXCEPT !.errors = parsed.errors])
                               ELSE /\ pc' = "raised"
                                    /\ UNCHANGED reports
    /\ UNCHANGED <<inputs, positions, person_count, event_count, study_id_key,
                   counters, blanks, run, trace, sent_at_start, direct>>

\* generate_output is called again on the same input with the same options;
\* the DedupTracker keeps its marks
Rerun ==
    /\ pc = "returned"
    /\ run < MaxRuns
    /\ run' = run + 1
    /\ pc' = "persons"
    /\ person_idx' = 0
    /\ form_idx' = 0
    /\ event_idx' = 0
    /\ person_count' = 0
    /\ event_count' = 0
    /\ study_id_key' = Unbound
    /\ subject_details' = EmptyDict
    /\ form_details' = EmptyDict
    /\ errors' = <<>>
    /\ blanks' = <<>>
    /\ sent_at_start' = sent_events
    /\ UNCHANGED <<inputs, sent_events, exc, reports, calls, handled, trace, direct>>

Next ==
    \/ BeginPerson
    \/ BeginForm
    \/ EvalEvent
    \/ EndForm
    \/ EndPerson
    \/ FinishRun

\* one run of generate_output
Spec == Init /\ [][Next]_vars

\* up to MaxRuns runs of generate_output, one after the other
NextRerun ==
    \/ Next
    \/ Rerun

SpecRerun == Init /\ [][NextRerun]_vars


\* --------------------------------------- the response parser, called alone
\* a record-failure entry with the keys ks; tag tells the entries apart
Entry(ks, tag) == [k \in ks |-> <<k \o "_" \o tag>>]
Entries == { Entry(ks, tag) : ks \in SUBSET EntryKeys, tag \in {"1", "2"} }

RECURSIVE SeqsUpTo(_, _)
SeqsUpTo(S, n) ==
    IF n = 0 THEN {<<>>}
    ELSE LET shorter == SeqsUpTo(S, n - 1)
         IN shorter \cup { Append(q, x) : q \in shorter, x \in S }

Responses ==
    {[kind |-> "unparseable"], [kind |-> "number"]}
    \cup { [kind |-> "dict", has_error |-> e, has_records |-> FALSE, records |-> <<>>] :
             e \in BOOLEAN }
    \cup { [kind |-> "dict", has_error |-> e, has_records |-> TRUE, records |-> rs] :
             e \in BOOLEAN, rs \in SeqsUpTo(Entries, MaxRecords) }

EarlierErrors == { <<>>, << <<"an earlier error">> >> }

\* the variables of a run of generate_output, when none is under way
NoRun ==
    /\ skip_blanks = FALSE
    /\ bulk_send_blanks = FALSE
    /\ sent_events = {}
    /\ sent_at_start = {}
    /\ person_count = 0
    /\ event_count = 0
    /\ study_id_key = Unbound
    /\ subject_details = EmptyDict
    /\ form_details = EmptyDict
    /\ blanks = <<>>
    /\ exc = NoExc
    /\ run = 0
    /\ reports = <<>>
    /\ calls = <<>>
    /\ handled = <<>>
    /\ trace = <<>>

InitErr ==
    /\ NoRun
    /\ pc = "call"
    /\ person_tree = <<>>
    /\ person_idx = 0
    /\ form_idx = 0
    /\ event_idx = 0
    /\ redcap_response \in Responses
    /\ errors \in EarlierErrors
    /\ ret = None

\* handle_errors_in_redcap_xml_response(redcap_response, report_data)
HandleErrors ==
    /\ pc = "call"
    /\ redcap_response.kind # "none"
    /\ LET r == handle_errors_in_redcap_xml_response(redcap_response, errors)
       IN /\ errors' = r.errors
          /\ exc' = r.exc
          /\ IF r.exc = NoExc
             THEN pc' = "returned" /\ ret' = r.ret
             ELSE pc' = "raised" /\ UNCHANGED ret
    /\ UNCHANGED <<inputs, sent_events, positions, person_count, event_count,
                   study_id_key, counters, blanks, run, reports, history,
                   redcap_response>>

SpecErr == InitErr /\ [][HandleErrors]_vars

\* ------------------------------------ the event transformer, called alone
\* the fields an event may hold: the name element absent, empty or filled,
\* the value element absent, empty or filled
XFields == [name : {Missing, None, "a", "b"}, value : {Missing, None, "v"}]

\* the event that is transformed
XEvents == [name : {Missing, None, "E1"}, fields : SeqsUpTo(XFields, MaxFields)]

\* the other event of the document
XOthers ==
    { [name |-> "E2", fields |-> fs] :
        fs \in {<<>>} \cup { <<[name |-> n, value |-> "v"]>> : n \in {Missing, None, "a"} } }

\* one person with one form of two events, the transformed event first or last
XDocs ==
    { <<[study_id |-> StudyId(1), lab_id |-> None,
         forms |-> <<[name |-> FormName(1), events |-> es]>>]>> :
        es \in UNION { {<<e, o>>, <<o, e>>} : e \in XEvents, o \in XOthers } }

InitXform ==
    /\ NoRun
    /\ pc = "call"
    /\ person_tree \in XDocs
    /\ person_idx = 1
    /\ form_idx = 1
    /\ event_idx \in {0, 1}
    /\ person_tree[1].forms[1].events[event_idx + 1] \in XEvents
    /\ redcap_response = NoResponse
    /\ errors = <<>>
    /\ ret = None

\* the event element create_import_data_json is called on
event_tree == CurForm.events[event_idx + 1]

\* the dictionary generate_output seeds the call with, line 176
SeedDict == [k \in {def_field} |-> CurPerson.study_id]

\* create_import_data_json(import_data_dict, event_tree)
CreateImportDataJson ==
    /\ pc = "call"
    /\ redcap_response.kind = "none"
    /\ LET r == create_import_data_json(SeedDict, person_tree, event_tree)
       IN /\ exc' = r.exc
          /\ IF r.exc = NoExc
             THEN /\ pc' = "returned"
                  /\ ret' = [json_data |-> r.json_data, contains_data |-> r.contains_data]
             ELSE /\ pc' = "raised"
                  /\ UNCHANGED ret
    /\ UNCHANGED <<inputs, sent_events, positions, person_count, event_count,
                   study_id_key, counters, errors, blanks, run, reports, history,
                   redcap_response>>

SpecXform == InitXform /\ [][CreateImportDataJson]_vars


\* ============================================================== properties
\* s holds the string t
Contains(s, t) ==
    \E i \in 1..(Len(s) - Len(t) + 1) : SubSeq(s, i, i + Len(t) - 1) = t

\* a record-failure entry that has record, field_name, value and message
Complete(entry) == EntryKeys \subseteq DOMAIN entry

\* the payload has the 'error' marker and a 'records' list of complete entries
WellFormed(response) ==
    /\ response.kind = "dict"
    /\ response.has_error
    /\ response.has_records
    /\ \A j \in DOMAIN response.records : Complete(response.records[j])

\* the payload is a dictionary that lacks the 'error' marker, the 'records'
\* key, or a key of some entry
Malformed(response) ==
    /\ response.kind = "dict"
    /\ \/ ~response.has_error
       \/ ~response.has_records
       \/ \E j \in DOMAIN response.records : ~Complete(response.records[j])

\* the number of complete entries before the first incomplete one, read only
\* when the payload has both markers
CompleteBefore(response) ==
    IF ~response.has_error \/ ~response.has_records THEN 0
    ELSE Cardinality({ j \in DOMAIN response.records :
                         \A i \in 1..j : Complete(response.records[i]) })

\* the errors list grows by one string per entry 1..n of the payload, in the
\* entries' order, each string holding the entry's four values, and keeps
\* what it held
AppendedFor(before, after, response, n) ==
    /\ Len(after) = Len(before) + n
    /\ SubSeq(after, 1, Len(before)) = before
    /\ \A j \in 1..n : \A k \in EntryKeys :
          Contains(after[Len(before) + j], response.records[j][k])

\* C6: handle_errors_in_redcap_xml_response never raises and returns True,
\* whatever the failure payload is.
C6_NeverRaises ==
    pc # "call" => (exc = NoExc /\ ret = TRUE)

\* C7: for a well-formed payload of n entries the parser appends exactly n
\* strings to the errors list, one per entry in order, each containing the
\* entry's record, field name, value and message; the strings already in the
\* list stay unchanged and in place.
C7_OneStringPerEntry ==
    [][(pc = "call" /\ WellFormed(redcap_response))
         => AppendedFor(errors, errors', redcap_response,
                        Len(redcap_response.records))]_vars

C7_Witness ==
    /\ pc = "returned"
    /\ WellFormed(redcap_response)
    /\ Len(redcap_response.records) = 2
    /\ redcap_response.records[1] # redcap_response.records[2]
    /\ Len(errors) = 3

\* C8 as stated: a payload that lacks the 'error' marker, the 'records' key
\* or a key of some entry leaves the errors list as it was.
C8_MalformedAddsNothing ==
    [][(pc = "call" /\ Malformed(redcap_response)) => errors' = errors]_vars

\* C8 as amended: such a payload adds no string for the first entry that
\* lacks a key nor for any entry after it; the complete entries before it
\* each get their string, and a payload without the 'error' marker or the
\* 'records' key leaves the list as it was.
C8_MalformedAddsPrefixOnly ==
    [][(pc = "call" /\ Malformed(redcap_response))
         => AppendedFor(errors, errors', redcap_response,
                        CompleteBefore(redcap_response))]_vars

C8_Witness ==
    /\ pc = "returned"
    /\ redcap_response.kind = "dict"
    /\ redcap_response.has_error
    /\ redcap_response.has_records
    /\ Len(redcap_response.records) = 2
    /\ Complete(redcap_response.records[1])
    /\ ~Complete(redcap_response.records[2])
    /\ Len(errors) = 2
    /\ errors[1] = <<"an earlier error">>

\* the fields of all the events of the document
AllFields == UNION { { ev.fields[j] : j \in DOMAIN ev.fields } :
                       ev \in { AllEvents(person_tree)[i] : i \in DOMAIN AllEvents(person_tree) } }

\* an element's text is missing or empty
Nameless(name) == name \in {Missing, None, ""}

\* C9: create_import_data_json fails for an event whose name is missing or
\* empty, and for any event when some field of the document has no name
\* (name element absent, or present but empty).
C9_RejectsNameless ==
    (pc # "call" /\ (Nameless(event_tree.name) \/ \E fld \in AllFields : Nameless(fld.name)))
        => pc = "raised"

\* the event has a name, its fields have names, and no two fields share one
ValidEvent(ev) ==
    /\ ~Nameless(ev.name)
    /\ \A j \in DOMAIN ev.fields : ~Nameless(ev.fields[j].name)
    /\ \A i, j \in DOMAIN ev.fields : ev.fields[i].name = ev.fields[j].name => i = j

\* C10: contains_data is true exactly when some field of the event has a
\* non-empty value (the subject-id key and redcap_event_name do not count);
\* for a valid event the mapping holds the subject-id key, the event name and
\* one entry per field, a missing value being the empty string.
C10_ContainsDataIffValue ==
    pc = "returned" =>
        LET fs == event_tree.fields
            json == ret.json_data
        IN /\ ret.contains_data <=> \E j \in DOMAIN fs : ~Nameless(fs[j].value)
           /\ ValidEvent(event_tree) =>
                /\ DOMAIN json = {def_field, "redcap_event_name"}
                                    \cup { fs[j].name : j \in DOMAIN fs }
                /\ Cardinality(DOMAIN json) = 2 + Len(fs)
                /\ json[def_field] = person_tree[1].study_id
                /\ json["redcap_event_name"] = event_tree.name
                /\ \A j \in DOMAIN fs :
                      json[fs[j].name] = IF Nameless(fs[j].value) THEN "" ELSE fs[j].value

C10_Witness ==
    /\ pc = "returned"
    /\ ValidEvent(event_tree)
    /\ Len(event_tree.fields) = 2
    /\ event_tree.fields[1].value = "v"
    /\ event_tree.fields[2].value = Missing
    /\ ret.contains_data
    /\ ret.json_data[event_tree.fields[2].name] = ""


\* ------------------------------------------------ generate_output: helpers
\* the positions <<person, form, event>> of the events of the document
Positions ==
    UNION { UNION { { <<p, f, e>> : e \in DOMAIN person_tree[p].forms[f].events } :
                      f \in DOMAIN person_tree[p].forms } :
              p \in DOMAIN person_tree }

FormPositions ==
    UNION { { <<p, f>> : f \in DOMAIN person_tree[p].forms } : p \in DOMAIN person_tree }

EventAt(pos) == person_tree[pos[1]].forms[pos[2]].events[pos[3]]

\* the event holds a field with a value
HasData(ev) == \E j \in DOMAIN ev.fields : ~Nameless(ev.fields[j].value)

\* the calls of upload_data made in run r, and whether none of them failed
RunCalls(r) == { i \in DOMAIN calls : calls[i].run = r }
AllOk(r) == \A i \in RunCalls(r) : calls[i].ok

\* the per-subject counters of run r: those of the report it returned, or
\* those of the run under way
SubjectDetailsOf(r) ==
    IF r <= Len(reports) THEN reports[r].subject_details ELSE subject_details

\* the number of events of the form at <<p, f>> that hold data
DataEvents(p, f) ==
    Cardinality({ e \in DOMAIN person_tree[p].forms[f].events :
                    HasData(EventAt(<<p, f, e>>)) })

\* the number of events that hold data in the forms named form_name
DataEventsNamed(form_name) ==
    Cardinality({ pos \in Positions :
                    /\ person_tree[pos[1]].forms[pos[2]].name = form_name
                    /\ HasData(EventAt(pos)) })

\* C1: when a run in which every send succeeded is followed by a run on the
\* same input with the same options and the marks kept, the second run sends
\* nothing (single or bulk) and returns the same per-subject and per-form
\* counters.
C1_RerunSendsNothing ==
    /\ \A i \in DOMAIN calls : calls[i].run > 1 => ~AllOk(calls[i].run - 1)
    /\ \A r \in 2..Len(reports) :
          AllOk(r - 1) =>
            /\ reports[r].subject_details = reports[r - 1].subject_details
            /\ reports[r].form_details = reports[r - 1].form_details

C1_Witness ==
    /\ Len(reports) = 2
    /\ AllOk(1)
    /\ Cardinality(RunCalls(1)) >= 2
    /\ RunCalls(2) = {}
    /\ \E k \in DOMAIN reports[2].form_details : reports[2].form_details[k] >= 2
    /\ reports[2].form_details = reports[1].form_details

\* the step is a single-record send that the remote service rejected
FailedSingleSend ==
    /\ Len(calls') = Len(calls) + 1
    /\ calls'[Len(calls')].kind = "single"
    /\ ~calls'[Len(calls')].ok

\* C2: a single-record send that fails with a remote-service error marks
\* nothing sent, moves no counter, hands the error payload to the response
\* parser and does not end the run: the events, forms and subjects after it
\* are still processed.
C2_FailedSendGoesOn ==
    [][FailedSingleSend =>
          /\ sent_events' = sent_events
          /\ subject_details' = subject_details
          /\ form_details' = form_details
          /\ handled' = Append(handled, calls'[Len(calls')].response)
          /\ pc' = "events"
          /\ event_idx' = event_idx + 1]_vars

\* the events of the form at <<p, f>> are [blank, non-blank, blank]
BlankDataBlank(p, f) ==
    /\ Len(person_tree[p].forms[f].events) = 3
    /\ ~HasData(EventAt(<<p, f, 1>>))
    /\ HasData(EventAt(<<p, f, 2>>))
    /\ ~HasData(EventAt(<<p, f, 3>>))

\* in run r the event at pos was evaluated with the outcome `what`
Evaluated(r, pos, what) ==
    \E i \in DOMAIN trace :
        trace[i].run = r /\ trace[i].at = pos /\ trace[i].outcome = what

\* in run r the second and third events of the form at <<p, f>> were neither
\* evaluated nor sent, and the subject's counter of the form stayed at zero
RestUntouched(r, p, f) ==
    /\ \A i \in DOMAIN trace :
          trace[i].run = r => trace[i].at \notin {<<p, f, 2>>, <<p, f, 3>>}
    /\ \A i \in RunCalls(r) : calls[i].at \notin {<<p, f, 2>>, <<p, f, 3>>}
    /\ LET sd == SubjectDetailsOf(r)
           sid == person_tree[p].study_id
           form_key == "Total_" \o person_tree[p].forms[f].name \o "_Forms"
       IN (sid \in DOMAIN sd /\ form_key \in DOMAIN sd[sid]) => sd[sid][form_key] = 0

\* C3 as stated: with skip_blanks, of a form whose events are [blank,
\* non-blank, blank] only the first is evaluated; the second and the third
\* are never sent and never counted.
C3_OnlyFirstEvaluated ==
    skip_blanks =>
        \A r \in 1..run : \A pf \in FormPositions :
            BlankDataBlank(pf[1], pf[2]) => RestUntouched(r, pf[1], pf[2])

\* C3 as amended: the same, for a form whose first event is not already
\* marked sent when it is evaluated.
C3_OnlyFirstEvaluatedUnlessSent ==
    skip_blanks =>
        \A r \in 1..run : \A pf \in FormPositions :
            (/\ BlankDataBlank(pf[1], pf[2])
             /\ ~Evaluated(r, <<pf[1], pf[2], 1>>, "already_sent"))
                => RestUntouched(r, pf[1], pf[2])

C3_Witness ==
    /\ skip_blanks
    /\ pc = "returned"
    /\ run = 1
    /\ Len(person_tree) = 1
    /\ BlankDataBlank(1, 1)
    /\ Evaluated(1, <<1, 1, 1>>, "skipped")
    /\ calls = <<>>

\* the (subject id, event name) pairs of the deferred events
BlankPairs(bs) == { <<bs[i][1], bs[i][3]>> : i \in DOMAIN bs }

\* the run is over and its last call was the bulk call
AfterBulk ==
    /\ pc \in {"returned", "raised"}
    /\ calls # <<>>
    /\ calls[Len(calls)].run = run
    /\ calls[Len(calls)].kind = "bulk"

\* C4: the bulk call carries exactly one record per distinct (subject id,
\* event name) pair of the deferred events, holding the fields of all the
\* deferred events of the pair; every deferred triple is marked sent if the
\* call succeeds and none is if it fails.
C4_BulkMergesAndMarks ==
    AfterBulk =>
        LET call == calls[Len(calls)]
        IN /\ bulk_send_blanks
           /\ blanks # <<>>
           /\ DOMAIN call.records = BlankPairs(blanks)
           /\ Cardinality(DOMAIN call.records) = Cardinality(BlankPairs(blanks))
           /\ \A i \in DOMAIN blanks :
                 LET record == call.records[<<blanks[i][1], blanks[i][3]>>]
                 IN /\ record[def_field] = blanks[i][1]
                    /\ record["redcap_event_name"] = blanks[i][3]
                    /\ DOMAIN blanks[i][4] \subseteq DOMAIN record
           /\ call.ok => BlankKeys(blanks) \subseteq sent_events
           /\ ~call.ok => BlankKeys(blanks) \cap sent_events = {}

C4_Witness ==
    /\ AfterBulk
    /\ calls[Len(calls)].ok
    /\ Len(blanks) = 2
    /\ blanks[1][1] = blanks[2][1]
    /\ blanks[1][3] = blanks[2][3]
    /\ blanks[1][2] # blanks[2][2]
    /\ Cardinality(DOMAIN calls[Len(calls)].records) = 1
    /\ BlankKeys(blanks) \subseteq sent_events
    /\ BlankKeys(blanks) \cap sent_at_start = {}

\* C5: with both options off, no mark at the start and no failed send, the
\* run sends every event once, alone; the per-subject counter of a form and
\* the share of the form in the per-form counter are the number of its events
\* that hold data; the report has no errors.
C5_DefaultRun ==
    (~skip_blanks /\ ~bulk_send_blanks /\ sent_at_start = {} /\ AllOk(run) /\ run >= 1)
        => /\ pc # "raised"
           /\ pc = "returned" =>
                /\ \A pos \in Positions :
                      Cardinality({ i \in RunCalls(run) :
                                      calls[i].at = pos /\ calls[i].kind = "single" }) = 1
                /\ Cardinality(RunCalls(run)) = Cardinality(Positions)
                /\ \A pf \in FormPositions :
                      LET sid == person_tree[pf[1]].study_id
                          form_name == person_tree[pf[1]].forms[pf[2]].name
                          form_key == "Total_" \o form_name \o "_Forms"
                      IN /\ subject_details[sid][form_key] = DataEvents(pf[1], pf[2])
                         /\ form_details[form_key] = DataEventsNamed(form_name)
                /\ reports[run].errors = <<>>
                /\ reports[run].subject_details = subject_details
                /\ reports[run].form_details = form_details

C5_Witness ==
    /\ ~skip_blanks /\ ~bulk_send_blanks /\ sent_at_start = {} /\ run = 1
    /\ pc = "returned"
    /\ Len(person_tree) = 1
    /\ Len(person_tree[1].forms) = 1
    /\ Len(person_tree[1].forms[1].events) = 2
    /\ HasData(EventAt(<<1, 1, 1>>))
    /\ ~HasData(EventAt(<<1, 1, 2>>))
    /\ Len(calls) = 2
    /\ AllOk(1)
    /\ subject_details["S1"]["Total_F1_Forms"] = 1
    /\ form_details["Total_F1_Forms"] = 1
    /\ reports[1].errors = <<>>

\* ------------------------------------- the record aggregator, called alone
MaxImport == 2

\* the field mappings of the import data: two that share a field name with
\* different values, one with a field of its own
ImportMappings ==
    { [k \in {"x"} |-> "1"], [k \in {"x"} |-> "2"], [k \in {"y"} |-> "1"] }

\* the 4-tuples (study_id_key, form_name, event_name, json_data_dict)
ImportTuples ==
    { <<StudyId(s), FormName(f), EventName(e), m>> :
        s \in 1..2, f \in 1..2, e \in 1..2, m \in ImportMappings }

ImportData == SeqsUpTo(ImportTuples, MaxImport)

\* the argument import_data is held by blanks, the list generate_output
\* passes at line 236
InitMerge ==
    /\ skip_blanks = FALSE
    /\ bulk_send_blanks = FALSE
    /\ sent_events = {}
    /\ sent_at_start = {}
    /\ person_count = 0
    /\ event_count = 0
    /\ study_id_key = Unbound
    /\ subject_details = EmptyDict
    /\ form_details = EmptyDict
    /\ exc = NoExc
    /\ run = 0
    /\ reports = <<>>
    /\ calls = <<>>
    /\ handled = <<>>
    /\ trace = <<>>
    /\ pc = "call"
    /\ person_tree = <<>>
    /\ person_idx = 0
    /\ form_idx = 0
    /\ event_idx = 0
    /\ redcap_response = NoResponse
    /\ errors = <<>>
    /\ blanks \in ImportData
    /\ ret = None

\* create_redcap_records(import_data)
CreateRedcapRecords ==
    /\ pc = "call"
    /\ pc' = "returned"
    /\ ret' = create_redcap_records(blanks)
    /\ UNCHANGED <<inputs, sent_events, positions, person_count, event_count,
                   study_id_key, counters, errors, blanks, exc, run, reports,
                   history, redcap_response>>

SpecMerge == InitMerge /\ [][CreateRedcapRecords]_vars

\* the places of import_data that carry the pair and hold the field
Givers(import_data, pair, field) ==
    { i \in DOMAIN import_data :
        /\ <<import_data[i][1], import_data[i][3]>> = pair
        /\ field \in DOMAIN import_data[i][4] }

\* the greatest member of a non-empty set of numbers
Last(S) == CHOOSE i \in S : \A j \in S : j <= i

\* C11: create_redcap_records returns one merged mapping per distinct
\* (subject id, event name) pair of its input; a merged mapping holds exactly
\* the fields of the input mappings of its pair, each with the value of the
\* last input mapping of the pair that has the field, and nothing of the
\* mappings of other pairs.
C11_OneRecordPerPair ==
    pc = "returned" =>
        /\ DOMAIN ret = BlankPairs(blanks)
        /\ \A pair \in DOMAIN ret :
              /\ DOMAIN ret[pair] =
                    { field \in {"x", "y"} : Givers(blanks, pair, field) # {} }
              /\ \A field \in DOMAIN ret[pair] :
                    ret[pair][field] =
                        blanks[Last(Givers(blanks, pair, field))][4][field]

\* A = {x: 1} then B = {x: 2} of the same pair, from two forms, give one
\* record with x = 2
C11_Witness ==
    /\ pc = "returned"
    /\ Len(blanks) = 2
    /\ blanks[1] = <<"S1", "F1", "E1", [k \in {"x"} |-> "1"]>>
    /\ blanks[2] = <<"S1", "F2", "E1", [k \in {"x"} |-> "2"]>>
    /\ Cardinality(DOMAIN ret) = 1
    /\ ret[<<"S1", "E1">>]["x"] = "2"

\* ----------------------------------------- generate_output: further claims
\* no event of the form of trace[i] was evaluated after trace[i] in its run
FormAbandonedAt(i) ==
    \A j \in DOMAIN trace :
        (j > i /\ trace[j].run = trace[i].run)
            => <<trace[j].at[1], trace[j].at[2]>> # <<trace[i].at[1], trace[i].at[2]>>

\* C12: with skip_blanks and bulk_send_blanks both enabled the skip path wins:
\* a blank event that is not already sent abandons the rest of its form,
\* nothing is ever put on the deferred-blanks list and no bulk call is made.
C12_SkipWinsOverBulk ==
    (skip_blanks /\ bulk_send_blanks) =>
        /\ blanks = <<>>
        /\ \A i \in DOMAIN calls : calls[i].kind # "bulk"
        /\ \A i \in DOMAIN trace :
              (~trace[i].contains_data /\ trace[i].key \notin sent_at_start)
                  => (trace[i].outcome = "skipped" /\ FormAbandonedAt(i))

C12_Witness ==
    /\ skip_blanks /\ bulk_send_blanks
    /\ pc = "returned"
    /\ Len(person_tree) = 1
    /\ Len(person_tree[1].forms) = 2
    /\ Len(person_tree[1].forms[1].events) = 2
    /\ Evaluated(1, <<1, 1, 1>>, "skipped")
    /\ Evaluated(1, <<1, 2, 1>>, "sent")
    /\ blanks = <<>>
    /\ Len(calls) = 1

\* the event that is evaluated next, and its triple
NextEvent == CurForm.events[event_idx + 1]
NextKey == <<CurPerson.study_id, CurForm.name, NextEvent.name>>

\* the triple of the event that is evaluated next is marked sent
NextAlreadySent ==
    /\ pc = "events"
    /\ event_idx < Len(CurForm.events)
    /\ NextKey \in sent_events

\* the counter `form_key` of subject `sid` and of the form moved by d
CountersMovedBy(sid, form_key, d) ==
    /\ subject_details' = [subject_details EXCEPT ![sid][form_key] = @ + d]
    /\ form_details' = [form_details EXCEPT ![form_key] = @ + d]

\* C13: an event whose triple is marked sent when it is evaluated is in no
\* send of the run, single or bulk, whatever the options: its evaluation
\* makes no call and defers nothing; the per-subject and the per-form counter
\* move by one if the event holds data and stay if it is blank; the run goes
\* on with the next event of the form.
C13_AlreadySentNotResent ==
    /\ [](\A i \in DOMAIN calls : \A j \in DOMAIN trace :
            (trace[j].run = calls[i].run /\ trace[j].outcome = "already_sent")
                => trace[j].key \notin calls[i].keys)
    /\ [][NextAlreadySent =>
            /\ calls' = calls
            /\ blanks' = blanks
            /\ sent_events' = sent_events
            /\ CountersMovedBy(CurPerson.study_id,
                               "Total_" \o CurForm.name \o "_Forms",
                               IF HasData(NextEvent) THEN 1 ELSE 0)
            /\ pc' = "events"
            /\ event_idx' = event_idx + 1
            /\ trace'[Len(trace')].outcome = "already_sent"]_vars

C13_Witness ==
    /\ bulk_send_blanks
    /\ pc = "returned"
    /\ sent_at_start = {<<"S1", "F1", "E1">>}
    /\ Len(person_tree) = 1
    /\ Len(person_tree[1].forms) = 1
    /\ Len(person_tree[1].forms[1].events) = 2
    /\ HasData(EventAt(<<1, 1, 1>>))
    /\ Evaluated(1, <<1, 1, 1>>, "already_sent")
    /\ Evaluated(1, <<1, 1, 2>>, "deferred")
    /\ subject_details["S1"]["Total_F1_Forms"] = 1
    /\ form_details["Total_F1_Forms"] = 1
    /\ Len(calls) = 1
    /\ calls[1].keys = {<<"S1", "F1", "E2">>}

\* --------------------------- generate_output on persons without a study id
MaxIdPersons == 2

\* the forms of such a person: none, or one form of one event, blank or not
IdForms ==
    {<<>>} \cup { <<[name |-> FormName(1), events |-> es]>> :
                    es \in EventSeqs(FormName(1), 1, 1) }

\* the sequences of n persons from S<from> on; the study_id element of a
\* person is absent, empty, or holds the person's id
RECURSIVE IdPersonSeqs(_, _)
IdPersonSeqs(from, n) ==
    IF n = 0 THEN {<<>>}
    ELSE { <<[study_id |-> id, lab_id |-> None, forms |-> fs]>> \o rest :
             id \in {Missing, None, StudyId(from)}, fs \in IdForms,
             rest \in IdPersonSeqs(from + 1, n - 1) }

IdDocs == UNION { IdPersonSeqs(1, n) : n \in 0..MaxIdPersons }

InitIds ==
    /\ person_tree \in IdDocs
    /\ skip_blanks \in BOOLEAN
    /\ bulk_send_blanks \in BOOLEAN
    /\ sent_events = {}
    /\ sent_at_start = {}
    /\ pc = "persons"
    /\ person_idx = 0
    /\ form_idx = 0
    /\ event_idx = 0
    /\ person_count = 0
    /\ event_count = 0
    /\ study_id_key = Unbound
    /\ subject_details = EmptyDict
    /\ form_details = EmptyDict
    /\ errors = <<>>
    /\ blanks = <<>>
    /\ exc = NoExc
    /\ run = 1
    /\ reports = <<>>
    /\ calls = <<>>
    /\ handled = <<>>
    /\ trace = <<>>
    /\ redcap_response = NoResponse
    /\ ret = None

SpecIds == InitIds /\ [][Next]_vars

\* C14: when some person of the input has no study_id element or an empty
\* one, the run ends with a raised error and returns no report.
C14_BadIdAborts ==
    (\E p \in DOMAIN person_tree : person_tree[p].study_id \in {Missing, None})
        => (pc # "returned" /\ reports = <<>>)

\* the bulk calls of run r
BulkCalls(r) == { i \in RunCalls(r) : calls[i].kind = "bulk" }

\* C15: with bulk_send_blanks on and skip_blanks off, a blank event that is
\* not already sent is never sent alone, it is only put on the deferred list;
\* a run makes at most one bulk call, after every event of the input was
\* evaluated and after every single-record send of the run, and none when
\* nothing was deferred.
C15_BlanksDeferredToOneBulk ==
    (bulk_send_blanks /\ ~skip_blanks) =>
        /\ \A i \in DOMAIN trace :
              (trace[i].run = run /\ ~HasData(EventAt(trace[i].at))
                 /\ trace[i].key \notin sent_at_start)
                  => /\ trace[i].outcome = "deferred"
                     /\ trace[i].key \in BlankKeys(blanks)
        /\ \A i \in RunCalls(run) :
              calls[i].kind = "single" => HasData(EventAt(calls[i].at))
        /\ Cardinality(BulkCalls(run)) <= 1
        /\ \A i \in BulkCalls(run) :
              /\ i = Len(calls)
              /\ pc \in {"returned", "raised"}
              /\ blanks # <<>>
              /\ \A pos \in Positions : \E j \in DOMAIN trace :
                    trace[j].run = run /\ trace[j].at = pos

C15_Witness ==
    /\ bulk_send_blanks /\ ~skip_blanks
    /\ pc = "returned"
    /\ sent_at_start = {}
    /\ Len(person_tree) = 2
    /\ Evaluated(1, <<1, 1, 1>>, "deferred")
    /\ Evaluated(1, <<2, 1, 1>>, "sent")
    /\ Len(calls) = 2
    /\ calls[1].kind = "single"
    /\ calls[2].kind = "bulk"
    /\ calls[2].keys = {<<"S1", "F1", "E1">>}

\* the event at pos was sent alone in run r and the send succeeded
SentOk(r, pos) ==
    \E i \in RunCalls(r) : calls[i].kind = "single" /\ calls[i].ok /\ calls[i].at = pos

\* the evaluations of the run under way that count for subject sid and form
\* form_name: the event holds data and was marked sent when the run started,
\* or was sent with success
Counted(sid, form_name) ==
    { i \in DOMAIN trace :
        /\ trace[i].run = run
        /\ trace[i].key[1] = sid
        /\ trace[i].key[2] = form_name
        /\ HasData(EventAt(trace[i].at))
        /\ (trace[i].key \in sent_at_start \/ SentOk(run, trace[i].at)) }

\* C16: at every point of a run the per-subject counter of a form is the
\* number of the events of that subject and form evaluated so far that hold
\* data and were already marked sent or were sent with success in the run;
\* blank events, failed sends, deferred events and events abandoned by
\* skip_blanks count for nothing.
C16_CounterIsDelivered ==
    \A pf \in FormPositions :
        LET sid == person_tree[pf[1]].study_id
            form_name == person_tree[pf[1]].forms[pf[2]].name
            form_key == "Total_" \o form_name \o "_Forms"
        IN IF sid \in DOMAIN subject_details /\ form_key \in DOMAIN subject_details[sid]
           THEN subject_details[sid][form_key] = Cardinality(Counted(sid, form_name))
           ELSE Counted(sid, form_name) = {}

C16_Witness ==
    /\ pc = "returned"
    /\ Len(person_tree) = 1
    /\ Len(person_tree[1].forms) = 1
    /\ Len(person_tree[1].forms[1].events) = 3
    /\ \A e \in 1..3 : HasData(EventAt(<<1, 1, e>>))
    /\ Evaluated(1, <<1, 1, 1>>, "already_sent")
    /\ Evaluated(1, <<1, 1, 2>>, "failed")
    /\ Evaluated(1, <<1, 1, 3>>, "sent")
    /\ subject_details["S1"]["Total_F1_Forms"] = 2

\* ------------------------------ generate_output on events that are invalid
MaxBadEvents == 3

\* the sequences of n events E<from>, ... of a form; the name element of an
\* event and that of its field may be empty
RECURSIVE BadEventSeqs(_, _, _)
BadEventSeqs(form_name, from, n) ==
    IF n = 0 THEN {<<>>}
    ELSE { <<[name |-> en, fields |-> <<[name |-> fn, value |-> v]>>]>> \o rest :
             en \in {EventName(from), None}, fn \in {FieldOf(form_name), None},
             v \in FieldValues, rest \in BadEventSeqs(form_name, from + 1, n - 1) }

\* one person with one form of at most MaxBadEvents events
BadDocs ==
    { <<[study_id |-> StudyId(1), lab_id |-> None,
         forms |-> <<[name |-> FormName(1), events |-> es]>>]>> :
        es \in UNION { BadEventSeqs(FormName(1), 1, n) : n \in 1..MaxBadEvents } }

InitBad ==
    /\ person_tree \in BadDocs
    /\ skip_blanks \in BOOLEAN
    /\ bulk_send_blanks \in BOOLEAN
    /\ sent_events = {}
    /\ sent_at_start = {}
    /\ pc = "persons"
    /\ person_idx = 0
    /\ form_idx = 0
    /\ event_idx = 0
    /\ person_count = 0
    /\ event_count = 0
    /\ study_id_key = Unbound
    /\ subject_details = EmptyDict
    /\ form_details = EmptyDict
    /\ errors = <<>>
    /\ blanks = <<>>
    /\ exc = NoExc
    /\ run = 1
    /\ reports = <<>>
    /\ calls = <<>>
    /\ handled = <<>>
    /\ trace = <<>>
    /\ redcap_response = NoResponse
    /\ ret = None

SpecBad == InitBad /\ [][Next]_vars

\* the event that is evaluated next cannot be transformed: its name is
\* missing or empty, or the name element of some field of the document is
\* empty
InvalidNext ==
    /\ pc = "events"
    /\ event_idx < Len(CurForm.events)
    /\ \/ Nameless(NextEvent.name)
       \/ \E fld \in AllFields : fld.name = None

\* C17: a failure while an event is processed aborts the run at once: an
\* event that cannot be transformed raises without a call, a mark or a
\* deferral; a raise out of the events loop leaves the run with no bulk call,
\* no deferred triple marked and no report; after the raise nothing more is
\* done.
C17_FailureAbortsRun ==
    /\ [][pc # "raised"]_vars
    /\ [][InvalidNext =>
            /\ pc' = "raised"
            /\ exc' # NoExc
            /\ calls' = calls
            /\ trace' = trace
            /\ blanks' = blanks
            /\ sent_events' = sent_events]_vars
    /\ [][(pc = "events" /\ pc' = "raised") =>
            /\ \A i \in DOMAIN calls' : calls'[i].run = run => calls'[i].kind # "bulk"
            /\ BlankKeys(blanks') \cap sent_events' = {}
            /\ reports' = reports
            /\ Len(reports') < run]_vars

C17_Witness ==
    /\ pc = "raised"
    /\ bulk_send_blanks /\ ~skip_blanks
    /\ Len(person_tree[1].forms[1].events) = 3
    /\ ~HasData(EventAt(<<1, 1, 1>>))
    /\ EventAt(<<1, 1, 2>>).name = None
    /\ event_idx = 1
    /\ Len(blanks) = 1
    /\ Len(trace) = 1
    /\ calls = <<>>
    /\ sent_events = {}
    /\ reports = <<>>

\* the triple was part of a send of run r that returned with success: the
\* call was made for it and carries the record of its subject and event
Delivered(r, key) ==
    \E i \in RunCalls(r) :
        /\ calls[i].ok
        /\ key \in calls[i].keys
        /\ <<key[1], key[3]>> \in DOMAIN calls[i].records

\* C18: every triple the run has marked sent belongs to an event whose record
\* was part of a send, single or bulk, that returned with success in the run;
\* no mark is made before or without such a send.
C18_MarkedOnlyAfterSuccess ==
    \A key \in sent_events \ sent_at_start : Delivered(run, key)

C18_Witness ==
    /\ pc = "returned"
    /\ bulk_send_blanks
    /\ sent_at_start = {}
    /\ Len(person_tree) = 1
    /\ Len(person_tree[1].forms) = 1
    /\ Evaluated(1, <<1, 1, 1>>, "failed")
    /\ Evaluated(1, <<1, 1, 2>>, "sent")
    /\ Evaluated(1, <<1, 1, 3>>, "deferred")
    /\ Len(calls) = 3
    /\ calls[3].kind = "bulk"
    /\ sent_events = {<<"S1", "F1", "E2">>, <<"S1", "F1", "E3">>}

\* the subjects that have a counter for form_key
SubjectsWith(form_key) ==
    { sid \in DOMAIN subject_details : form_key \in DOMAIN subject_details[sid] }

\* the sum of the counters of form_key of the subjects in S
RECURSIVE SumOfSubjects(_, _)
SumOfSubjects(S, form_key) ==
    IF S = {} THEN 0
    ELSE LET sid == CHOOSE x \in S : TRUE
         IN subject_details[sid][form_key] + SumOfSubjects(S \ {sid}, form_key)

\* the form keys the subjects have counters for
SubjectFormKeys ==
    UNION { DOMAIN subject_details[sid] \ {"lab_id"} : sid \in DOMAIN subject_details }

\* C19: in every reachable state the per-form counter of a form key is the
\* sum of the per-subject counters of that form key over all the subjects,
\* and a counter is zero when its form key is first seen.
C19_FormCounterIsSum ==
    /\ [](/\ DOMAIN form_details = SubjectFormKeys
          /\ \A form_key \in DOMAIN form_details :
                form_details[form_key] =
                    SumOfSubjects(SubjectsWith(form_key), form_key))
    /\ [][/\ \A form_key \in DOMAIN form_details' \ DOMAIN form_details :
                form_details'[form_key] = 0
          /\ \A sid \in DOMAIN subject_details' :
                \A form_key \in DOMAIN subject_details'[sid] \ {"lab_id"} :
                    (sid \notin DOMAIN subject_details
                        \/ form_key \notin DOMAIN subject_details[sid])
                    => subject_details'[sid][form_key] = 0]_vars

C19_Witness ==
    /\ pc = "returned"
    /\ Len(person_tree) = 2
    /\ subject_details["S1"]["Total_F1_Forms"] = 2
    /\ subject_details["S2"]["Total_F1_Forms"] = 1
    /\ form_details["Total_F1_Forms"] = 3

====
